---------------------------- MODULE Spec2Model ----------------------------
(* A model of gou's invocation core: the Caller (process-name parsing,     *)
(* handler binding, argument validation and the model handlers), the       *)
(* connector factory with its Connector Table, and the mongo driver's      *)
(* Register.  Strings the code takes apart are sequences of one-character  *)
(* strings; a connection string is the sequence of the pieces Sprintf and  *)
(* Join put together.                                                      *)
EXTENDS Integers, Sequences, FiniteSets, TLC

VARIABLES
    caller,      \* the Caller under construction / in use (part_001:13-20)
    pc,          \* where the invocation is: idle, bound, thrown, ran
    exc,         \* the exception thrown by NewCaller or Run, NoExc if none
    events,      \* what the handler did, in order: model lookups, model operations
    Connectors,  \* connector.Connectors: id -> connector instance
    nextInst,    \* identity of the next connector instance make() allocates
    loads,       \* history of the Load calls made so far
    ret,         \* what the last Load or Select returned
    m,           \* the mongo Connector Register works on
    regErr,      \* what the last Register returned
    connects,    \* the URIs mongo.Connect has been called with, in order
    mpc,         \* new: before Register, done: after it
    procs,       \* where each goroutine calling Load or Select is
    fatal        \* the Go runtime has stopped the program on a map race

callerVars == <<caller, pc, exc, events>>
connVars   == <<Connectors, nextInst, loads, ret>>
mongoVars  == <<m, regErr, connects, mpc>>
concVars   == <<procs, fatal>>
vars       == <<caller, pc, exc, events, Connectors, nextInst, loads, ret,
                m, regErr, connects, mpc, procs, fatal>>

(***************************************************************************)
(* Bounds of the model.                                                    *)
(***************************************************************************)
MaxMid == 2
MaxArgs == 3
MaxLoads == 3
MaxHosts == 2
NumProcs == 2

Nil == "nil"

(***************************************************************************)
(* Characters and strings.                                                 *)
(***************************************************************************)
Lowers == <<"a","b","c","d","e","f","g","h","i","j","k","l","m",
            "n","o","p","q","r","s","t","u","v","w","x","y","z">>
Uppers == <<"A","B","C","D","E","F","G","H","I","J","K","L","M",
            "N","O","P","Q","R","S","T","U","V","W","X","Y","Z">>

ToLowerChar(c) ==
    IF \E i \in 1..26 : Uppers[i] = c
    THEN Lowers[CHOOSE i \in 1..26 : Uppers[i] = c]
    ELSE c

ToUpperChar(c) ==
    IF \E i \in 1..26 : Lowers[i] = c
    THEN Uppers[CHOOSE i \in 1..26 : Lowers[i] = c]
    ELSE c

\* strings.ToLower
ToLower(s) == [i \in 1..Len(s) |-> ToLowerChar(s[i])]

\* strings.Split(s, "."): n separators give n+1 segments, "" gives [""]
RECURSIVE Split(_)
Split(s) ==
    IF s = <<>> THEN << <<>> >>
    ELSE LET rest == Split(Tail(s)) IN
         IF Head(s) = "." THEN << <<>> >> \o rest
         ELSE << <<Head(s)>> \o Head(rest) >> \o Tail(rest)

\* strings.Join(segs, ".")
RECURSIVE Join(_)
Join(segs) ==
    IF segs = <<>> THEN <<>>
    ELSE IF Len(segs) = 1 THEN segs[1]
    ELSE segs[1] \o <<".">> \o Join(Tail(segs))

\* the Go string a character sequence spells, as a map key
RECURSIVE Str(_)
Str(s) == IF s = <<>> THEN "" ELSE Head(s) \o Str(Tail(s))


(***************************************************************************)
(* Argument values: a Go value with its dynamic type.                      *)
(***************************************************************************)
QP        == [k |-> "QueryParam", v |-> <<>>]
MapV      == [k |-> "map", v |-> <<>>]
IntV(n)   == [k |-> "int", v |-> <<n>>]
StrV(s)   == [k |-> "string", v |-> <<s>>]
StrsV(ss) == [k |-> "[]string", v |-> ss]
AnysV(vs) == [k |-> "[]interface{}", v |-> vs]
RowsV(rs) == [k |-> "[][]interface{}", v |-> rs]

(***************************************************************************)
(* Exceptions: exception.New(message, code).Throw() unwinds the call.      *)
(***************************************************************************)
NoExc == [code |-> 0, msg |-> "none"]
Exc(code, msg) == [code |-> code, msg |-> msg]

(***************************************************************************)
(* Caller                                                                  *)
(***************************************************************************)
\* part_001:23-33
ModelHandlers ==
    [find     |-> "callerFind",
     get      |-> "callerGet",
     paginate |-> "callerPaginate",
     create   |-> "callerCreate",
     update   |-> "callerUpdate",
     save     |-> "callerSave",
     delete   |-> "callerDelete",
     destroy  |-> "callerDestroy",
     insert   |-> "callerInsert"]

\* &Caller{Name: name, Args: args}
NewCallerStruct(name, args) ==
    [Name |-> name, Type |-> <<>>, Class |-> <<>>, Method |-> <<>>,
     Args |-> args, Handler |-> Nil]

Malformed_OffByOne(namer) == Len(namer) - 1 < 1

\* last := len(namer) - 1; if last < 2
Malformed(namer) == Len(namer) - 1 < 2

ClassOf_KeepCase(namer) == Join(SubSeq(namer, 2, Len(namer) - 1))

\* strings.ToLower(strings.Join(namer[1:last], "."))
ClassOf(namer) == ToLower(Join(SubSeq(namer, 2, Len(namer) - 1)))

BindModel_Unchecked(method) ==
    IF Str(method) \in DOMAIN ModelHandlers
    THEN [handler |-> ModelHandlers[Str(method)], exc |-> NoExc]
    ELSE [handler |-> Nil, exc |-> NoExc]

\* handler, has := ModelHandlers[caller.Method]; if !has { throw 404 }
BindModel(method) ==
    IF Str(method) \in DOMAIN ModelHandlers
    THEN [handler |-> ModelHandlers[Str(method)], exc |-> NoExc]
    ELSE [handler |-> Nil, exc |-> Exc(404, "method-not-found")]

\* Caller.extraProcess: the caller as it leaves it, and the exception thrown
extraProcess(c) ==
    LET namer == Split(c.Name)
        last  == Len(namer)
    IN  IF Malformed(namer)
        THEN [caller |-> c, exc |-> Exc(400, "malformed-name")]
        ELSE LET c1 == [c EXCEPT !.Type   = ToLower(namer[1]),
                                 !.Class  = ClassOf(namer),
                                 !.Method = ToLower(namer[last])]
             IN  IF Str(c1.Type) = "plugins"
                 THEN [caller |-> [c1 EXCEPT !.Handler = "callerExec"],
                       exc |-> NoExc]
                 ELSE IF Str(c1.Type) = "models"
                 THEN LET b == BindModel(c1.Method)
                      IN  IF b.exc # NoExc
                          THEN [caller |-> c1, exc |-> b.exc]
                          ELSE [caller |-> [c1 EXCEPT !.Handler = b.handler],
                                exc |-> NoExc]
                 ELSE [caller |-> c1, exc |-> NoExc]

\* Caller.validateArgNums: TRUE when it throws
validateArgNums(c, length) == Len(c.Args) < length

ArgNumsExc == Exc(400, "missing-arguments")


(***************************************************************************)
(* The handlers.  Each returns what it did (events) and the exception it   *)
(* ended with.  ext is what the collaborators answer: whether the named    *)
(* model (or plugin) is loaded, the code of the lookup's failure, and      *)
(* whether the model operation (or the plugin call) succeeds.              *)
(***************************************************************************)
Ev(op, args) == [op |-> op, args |-> args]

\* mod := Select(caller.Class)  /  SelectPluginModel(caller.Class)
Lookup(op, c) == << Ev(op, <<c.Class>>) >>
LookupExc(ext) == Exc(ext.code, "not-loaded")
OpExc == Exc(500, "operation-failed")
CastExc == Exc(500, "cast-failed")

\* the handler's model operation, reached with the model in hand
Invoke(pre, call, ext) ==
    [events |-> pre \o <<call>>, exc |-> IF ext.opOk THEN NoExc ELSE OpExc]

\* args[i].(QueryParam)
IsQueryParam(v) == v.k = "QueryParam"
\* any.Of(v).CInt() converts; anything but a number panics
CanCInt(v) == v.k = "int"
\* any.Of(v).Map() converts; anything but a map panics
CanMap(v) == v.k = "map"

\* part_001:83-90
callerExec(c, ext) ==
    LET sel == Lookup("SelectPluginModel", c) IN
    IF ~ext.found THEN [events |-> sel, exc |-> LookupExc(ext)]
    ELSE Invoke(sel, Ev("Exec", <<c.Method>> \o c.Args), ext)

callerFind_LookupFirst(c, ext) ==
    LET sel == Lookup("Select", c) IN
    IF ~ext.found THEN [events |-> sel, exc |-> LookupExc(ext)]
    ELSE IF validateArgNums(c, 2) THEN [events |-> sel, exc |-> ArgNumsExc]
    ELSE LET params == IF IsQueryParam(c.Args[2]) THEN c.Args[2] ELSE QP
         IN  Invoke(sel, Ev("MustFind", <<c.Args[1], params>>), ext)

\* part_001:93-101
callerFind(c, ext) ==
    IF validateArgNums(c, 2) THEN [events |-> <<>>, exc |-> ArgNumsExc]
    ELSE LET sel == Lookup("Select", c) IN
    IF ~ext.found THEN [events |-> sel, exc |-> LookupExc(ext)]
    ELSE LET params == IF IsQueryParam(c.Args[2]) THEN c.Args[2] ELSE QP
         IN  Invoke(sel, Ev("MustFind", <<c.Args[1], params>>), ext)

\* part_001:104-112
callerGet(c, ext) ==
    IF validateArgNums(c, 1) THEN [events |-> <<>>, exc |-> ArgNumsExc]
    ELSE LET sel == Lookup("Select", c) IN
    IF ~ext.found THEN [events |-> sel, exc |-> LookupExc(ext)]
    ELSE IF ~IsQueryParam(c.Args[1])
    THEN [events |-> sel, exc |-> Exc(400, "bad-argument-1")]
    ELSE Invoke(sel, Ev("MustGet", <<c.Args[1]>>), ext)

\* part_001:115-126
callerPaginate(c, ext) ==
    IF validateArgNums(c, 3) THEN [events |-> <<>>, exc |-> ArgNumsExc]
    ELSE LET sel == Lookup("Select", c) IN
    IF ~ext.found THEN [events |-> sel, exc |-> LookupExc(ext)]
    ELSE IF ~IsQueryParam(c.Args[1])
    THEN [events |-> sel, exc |-> Exc(400, "bad-argument-1")]
    ELSE IF ~CanCInt(c.Args[2]) \/ ~CanCInt(c.Args[3])
    THEN [events |-> sel, exc |-> CastExc]
    ELSE Invoke(sel, Ev("MustPaginate", <<c.Args[1], c.Args[2], c.Args[3]>>), ext)

\* part_001:129-134
callerCreate(c, ext) ==
    IF validateArgNums(c, 1) THEN [events |-> <<>>, exc |-> ArgNumsExc]
    ELSE LET sel == Lookup("Select", c) IN
    IF ~ext.found THEN [events |-> sel, exc |-> LookupExc(ext)]
    ELSE IF ~CanMap(c.Args[1]) THEN [events |-> sel, exc |-> CastExc]
    ELSE Invoke(sel, Ev("MustCreate", <<c.Args[1]>>), ext)

\* part_001:137-144
callerUpdate(c, ext) ==
    IF validateArgNums(c, 2) THEN [events |-> <<>>, exc |-> ArgNumsExc]
    ELSE LET sel == Lookup("Select", c) IN
    IF ~ext.found THEN [events |-> sel, exc |-> LookupExc(ext)]
    ELSE IF ~CanMap(c.Args[2]) THEN [events |-> sel, exc |-> CastExc]
    ELSE Invoke(sel, Ev("MustUpdate", <<c.Args[1], c.Args[2]>>), ext)

\* part_001:147-152
callerSave(c, ext) ==
    IF validateArgNums(c, 1) THEN [events |-> <<>>, exc |-> ArgNumsExc]
    ELSE LET sel == Lookup("Select", c) IN
    IF ~ext.found THEN [events |-> sel, exc |-> LookupExc(ext)]
    ELSE IF ~CanMap(c.Args[1]) THEN [events |-> sel, exc |-> CastExc]
    ELSE Invoke(sel, Ev("MustSave", <<c.Args[1]>>), ext)

\* part_001:155-160
callerDelete(c, ext) ==
    IF validateArgNums(c, 1) THEN [events |-> <<>>, exc |-> ArgNumsExc]
    ELSE LET sel == Lookup("Select", c) IN
    IF ~ext.found THEN [events |-> sel, exc |-> LookupExc(ext)]
    ELSE Invoke(sel, Ev("MustDelete", <<c.Args[1]>>), ext)

\* part_001:163-168
callerDestroy(c, ext) ==
    IF validateArgNums(c, 1) THEN [events |-> <<>>, exc |-> ArgNumsExc]
    ELSE LET sel == Lookup("Select", c) IN
    IF ~ext.found THEN [events |-> sel, exc |-> LookupExc(ext)]
    ELSE Invoke(sel, Ev("MustDestroy", <<c.Args[1]>>), ext)

Digits == <<"0","1","2","3","4","5","6","7","8","9">>
RECURSIVE StrOf(_)
RECURSIVE SpaceJoined(_)
\* the elements of a sequence printed with %v, a space between them
SpaceJoined(vs) ==
    IF vs = <<>> THEN ""
    ELSE IF Len(vs) = 1 THEN StrOf(vs[1])
    ELSE StrOf(vs[1]) \o " " \o SpaceJoined(Tail(vs))
\* string(str.Of(col)): the value printed with %v
StrOf(v) ==
    IF v.k = "string" THEN v.v[1]
    ELSE IF v.k = "int" /\ v.v[1] \in 0..9 THEN Digits[v.v[1] + 1]
    ELSE IF v.k = "[]interface{}" THEN "[" \o SpaceJoined(v.v) \o "]"
    ELSE v.k

\* part_001:174-184: [ok, colums]
InsertColumns(a) ==
    IF a.k = "[]string" THEN [ok |-> TRUE, colums |-> a.v]
    ELSE IF a.k # "[]interface{}" THEN [ok |-> FALSE, colums |-> <<>>]
    ELSE [ok |-> TRUE, colums |-> [i \in 1..Len(a.v) |-> StrOf(a.v[i])]]

InsertRows_SkipBad(a) ==
    IF a.k = "[][]interface{}" THEN [ok |-> TRUE, rows |-> a.v]
    ELSE IF a.k # "[]interface{}" THEN [ok |-> FALSE, rows |-> <<>>]
    ELSE [ok |-> TRUE,
          rows |-> LET good == SelectSeq(a.v, LAMBDA e : e.k = "[]interface{}")
                   IN  [i \in 1..Len(good) |-> good[i].v]]

\* part_001:186-201: [ok, rows]
InsertRows(a) ==
    IF a.k = "[][]interface{}" THEN [ok |-> TRUE, rows |-> a.v]
    ELSE IF a.k # "[]interface{}" THEN [ok |-> FALSE, rows |-> <<>>]
    ELSE IF \E i \in 1..Len(a.v) : a.v[i].k # "[]interface{}"
    THEN [ok |-> FALSE, rows |-> <<>>]
    ELSE [ok |-> TRUE, rows |-> [i \in 1..Len(a.v) |-> a.v[i].v]]

\* part_001:171-205
callerInsert(c, ext) ==
    IF validateArgNums(c, 2) THEN [events |-> <<>>, exc |-> ArgNumsExc]
    ELSE LET sel == Lookup("Select", c) IN
    IF ~ext.found THEN [events |-> sel, exc |-> LookupExc(ext)]
    ELSE LET cols == InsertColumns(c.Args[1])
             rows == InsertRows(c.Args[2])
         IN  IF ~cols.ok THEN [events |-> sel, exc |-> Exc(400, "bad-argument-1")]
             ELSE IF ~rows.ok THEN [events |-> sel, exc |-> Exc(400, "bad-argument-2")]
             ELSE Invoke(sel, Ev("MustInsert", <<cols.colums, rows.rows>>), ext)

NilPanic == Exc(0, "nil-handler-panic")

\* caller.Handler(caller): a nil func value panics when called
CallHandler(c, ext) ==
    CASE c.Handler = "callerExec"     -> callerExec(c, ext)
      [] c.Handler = "callerFind"     -> callerFind(c, ext)
      [] c.Handler = "callerGet"      -> callerGet(c, ext)
      [] c.Handler = "callerPaginate" -> callerPaginate(c, ext)
      [] c.Handler = "callerCreate"   -> callerCreate(c, ext)
      [] c.Handler = "callerUpdate"   -> callerUpdate(c, ext)
      [] c.Handler = "callerSave"     -> callerSave(c, ext)
      [] c.Handler = "callerDelete"   -> callerDelete(c, ext)
      [] c.Handler = "callerDestroy"  -> callerDestroy(c, ext)
      [] c.Handler = "callerInsert"   -> callerInsert(c, ext)
      [] OTHER                        -> [events |-> <<>>, exc |-> NilPanic]


(***************************************************************************)
(* Inputs of the Caller: process names and argument lists.                 *)
(***************************************************************************)
Capitalize(s) == [i \in 1..Len(s) |-> IF i = 1 THEN ToUpperChar(s[i]) ELSE s[i]]
ToUpper(s) == [i \in 1..Len(s) |-> ToUpperChar(s[i])]

sModels  == <<"m","o","d","e","l","s">>
sPlugins == <<"p","l","u","g","i","n","s">>
sFlows   == <<"f","l","o","w","s">>
sUser    == <<"u","s","e","r">>
sPet     == <<"P","e","t">>
sLogin   == <<"L","o","g","i","n">>
sNope    == <<"n","o","p","e">>
MethodNames ==
    { <<"f","i","n","d">>, <<"g","e","t">>,
      <<"p","a","g","i","n","a","t","e">>, <<"c","r","e","a","t","e">>,
      <<"u","p","d","a","t","e">>, <<"s","a","v","e">>,
      <<"d","e","l","e","t","e">>, <<"d","e","s","t","r","o","y">>,
      <<"i","n","s","e","r","t">> }

DomainPool == { sModels, Capitalize(sModels), ToUpper(sModels),
                sPlugins, Capitalize(sPlugins), sFlows, <<>> }
MidPool    == { sUser, sPet }
LastPool   == MethodNames
              \cup { Capitalize(<<"f","i","n","d">>), ToUpper(<<"f","i","n","d">>),
                     Capitalize(<<"g","e","t">>), sNope, <<>> }

SeqsUpTo(S, n) == UNION { [1..k -> S] : k \in 0..n }

\* names of every shape: one segment, two segments, three and more
ParseNames ==
    DomainPool
    \cup { Join(<<d>> \o mid \o <<l>>) :
             d \in DomainPool, mid \in SeqsUpTo(MidPool, MaxMid), l \in LastPool }
PlainArgs == SeqsUpTo({IntV(1)}, MaxArgs)

\* well-formed names of every handler, with arguments of every type
RunNames ==
    { Join(<<sModels, sUser, meth>>) : meth \in MethodNames }
    \cup { Join(<<sPlugins, sUser, sLogin>>), Join(<<sFlows, sUser, sLogin>>) }
ArgPool ==
    { QP, MapV, IntV(1),
      StrsV(<<"a", "b">>),
      AnysV(<<StrV("a"), StrV("b")>>),
      RowsV(<< <<IntV(1), StrV("x")>> >>),
      AnysV(<< AnysV(<<IntV(1), StrV("x")>>) >>) }
TypedArgs == SeqsUpTo(ArgPool, MaxArgs)

ExtAnswers ==
    [found : {TRUE}, code : {400}, opOk : BOOLEAN]
    \cup [found : {FALSE}, code : {400, 404, 500}, opOk : {TRUE}]

(***************************************************************************)
(* Initial state.                                                          *)
(***************************************************************************)
NoCaller == NewCallerStruct(<<>>, <<>>)
NoRet    == [op |-> "none", id |-> "", conn |-> 0, err |-> Nil]
NewMongo ==
    [id |-> "", file |-> "",
     Options |-> [DB |-> "", Timeout |-> 0, Hosts |-> <<>>, Params |-> <<>>,
                  dsn |-> <<>>],
     Client |-> Nil]

InitCaller == caller = NoCaller /\ pc = "idle" /\ exc = NoExc /\ events = <<>>
InitConn   == Connectors = {} /\ nextInst = 1 /\ loads = <<>> /\ ret = NoRet
InitMongo  == m = NewMongo /\ regErr = Nil /\ connects = <<>> /\ mpc = "new"
Procs      == 1..NumProcs
NoConn     == [conn |-> 0, kind |-> "", err |-> Nil]
Idle       == [pc |-> "idle", id |-> "", c |-> NoConn, raced |-> FALSE,
               conn |-> 0, err |-> Nil]
InitProcs  == procs = [p \in Procs |-> Idle] /\ fatal = FALSE
Init == InitCaller /\ InitConn /\ InitMongo /\ InitProcs

(***************************************************************************)
(* Caller actions.                                                         *)
(***************************************************************************)
\* part_001:36-40: NewCaller returns the caller unless extraProcess throws
NewCaller(name, args) ==
    /\ pc = "idle"
    /\ LET r == extraProcess(NewCallerStruct(name, args))
       IN  /\ caller' = r.caller
           /\ exc' = r.exc
           /\ pc' = IF r.exc = NoExc THEN "bound" ELSE "thrown"
    /\ events' = <<>>
    /\ UNCHANGED <<connVars, mongoVars, concVars>>

\* part_001:43-45
Run(ext) ==
    /\ pc = "bound"
    /\ LET r == CallHandler(caller, ext)
       IN  /\ events' = r.events
           /\ exc' = r.exc
    /\ pc' = "ran"
    /\ UNCHANGED <<caller, connVars, mongoVars, concVars>>

\* the caller is dropped once Run has returned or the exception has unwound
Discard ==
    /\ pc \in {"thrown", "ran"}
    /\ caller' = NoCaller /\ pc' = "idle" /\ exc' = NoExc /\ events' = <<>>
    /\ UNCHANGED <<connVars, mongoVars, concVars>>

NextCaller ==
    \/ pc = "idle" /\ \E name \in ParseNames, args \in PlainArgs : NewCaller(name, args)
    \/ pc = "idle" /\ \E name \in RunNames, args \in TypedArgs : NewCaller(name, args)
    \/ pc = "bound" /\ \E ext \in ExtAnswers : Run(ext)
    \/ Discard

SpecCaller == Init /\ [][NextCaller]_vars


(***************************************************************************)
(* Properties of the Caller, stated on the raw name.                       *)
(***************************************************************************)
NumDots(s) == Cardinality({i \in 1..Len(s) : s[i] = "."})
\* b is the letter a in lower case (or a itself when a is no capital)
LowerOf(a, b) ==
    /\ \A i \in 1..26 : b # Uppers[i]
    /\ b = a \/ \E i \in 1..26 : Uppers[i] = a /\ Lowers[i] = b
\* t is s in lower case
LowerCased(s, t) ==
    Len(t) = Len(s) /\ \A i \in 1..Len(s) : LowerOf(s[i], t[i])
FirstDot(s) == CHOOSE i \in 1..Len(s) : s[i] = "." /\ \A j \in 1..(i-1) : s[j] # "."
LastDot(s)  == CHOOSE i \in 1..Len(s) : s[i] = "." /\ \A j \in (i+1)..Len(s) : s[j] # "."
FirstSegment(s) == SubSeq(s, 1, FirstDot(s) - 1)
LastSegment(s)  == SubSeq(s, LastDot(s) + 1, Len(s))
Called == pc # "idle"
WellFormed == Called /\ NumDots(caller.Name) >= 2

\* C1: a name of n >= 3 segments is parsed into Type = the first segment,
\* Method = the last segment and Class = the segments between them rejoined
\* with '.', all three in lower case whatever the case of the name.
C1_ParseLowercase ==
    WellFormed =>
        LET joined == caller.Type \o <<".">> \o caller.Class \o <<".">> \o caller.Method
        IN  /\ NumDots(caller.Type) = 0
            /\ NumDots(caller.Method) = 0
            /\ LowerCased(caller.Name, joined)

C1_Witness ==
    /\ pc = "bound"
    /\ NumDots(caller.Name) = 3
    /\ NumDots(caller.Class) = 1
    /\ \E i \in 1..Len(caller.Class) : caller.Class[i] # caller.Name[FirstDot(caller.Name) + i]

\* C2: a name of fewer than 3 segments makes NewCaller throw the
\* malformed-name exception, code 400, before anything is bound: Type, Class,
\* Method and Handler are left unassigned.
C2_MalformedName ==
    (Called /\ NumDots(caller.Name) < 2) =>
        /\ pc = "thrown"
        /\ exc = Exc(400, "malformed-name")
        /\ caller.Type = <<>> /\ caller.Class = <<>> /\ caller.Method = <<>>
        /\ caller.Handler = Nil

C2_Witness ==
    pc = "thrown" /\ NumDots(caller.Name) = 1 /\ Str(FirstSegment(caller.Name)) = "models"

\* C3: a well-formed name of domain "models" whose method is none of the nine
\* of the Model Handler Table makes NewCaller throw the method-not-found
\* exception, code 404 and not the malformed-name 400, and binds no handler.
C3_MethodNotFound ==
    (/\ WellFormed
     /\ LowerCased(FirstSegment(caller.Name), sModels)
     /\ \A meth \in MethodNames : ~LowerCased(LastSegment(caller.Name), meth)) =>
        /\ pc = "thrown"
        /\ exc.code = 404
        /\ exc # Exc(400, "malformed-name")
        /\ caller.Handler = Nil

C3_Witness ==
    /\ pc = "thrown" /\ exc.code = 404
    /\ FirstSegment(caller.Name) = ToUpper(sModels)
    /\ LastSegment(caller.Name) = sNope

\* C4: a well-formed name whose domain is neither "models" nor "plugins"
\* makes NewCaller fail at bind time; no Caller with a nil Handler is
\* returned or run.
C4_UnsupportedDomainFailsFast ==
    /\ (/\ WellFormed
        /\ ~LowerCased(FirstSegment(caller.Name), sModels)
        /\ ~LowerCased(FirstSegment(caller.Name), sPlugins)) => pc = "thrown"
    /\ pc \in {"bound", "ran"} => caller.Handler # Nil

MinArgs ==
    [find |-> 2, get |-> 1, paginate |-> 3, create |-> 1, update |-> 2,
     save |-> 1, delete |-> 1, destroy |-> 1, insert |-> 2]

\* C5: a model handler run with fewer arguments than its method's minimum
\* ends with the argument-count exception, code 400, with no model looked up
\* and no model operation invoked.
C5_ArgCountBeforeLookup ==
    (/\ pc = "ran"
     /\ Str(caller.Type) = "models"
     /\ Len(caller.Args) < MinArgs[Str(caller.Method)]) =>
        /\ exc = ArgNumsExc
        /\ exc.code = 400
        /\ events = <<>>

C5_Witness ==
    /\ pc = "ran"
    /\ Str(caller.Type) = "models" /\ Str(caller.Method) = "find"
    /\ Len(caller.Args) = 1
    /\ events = <<>> /\ exc.code = 400


\* the run is of models.<class>.insert with two arguments
InsertRan ==
    /\ pc = "ran"
    /\ Str(caller.Type) = "models" /\ Str(caller.Method) = "insert"
    /\ Len(caller.Args) = 2
\* the model was found: the handler got past its lookup
ModelFound == events # <<>> /\ exc.msg # "not-loaded"
InsertInvoked == \E i \in 1..Len(events) : events[i].op = "MustInsert"
\* the two shapes of each argument
TypedColumns(a) == a.k = "[]string"
LooseColumns(a) == a.k = "[]interface{}"
TypedRows(a) == a.k = "[][]interface{}"
LooseRows(a) ==
    a.k = "[]interface{}" /\ \A i \in 1..Len(a.v) : a.v[i].k = "[]interface{}"
\* what an argument says whichever shape says it: the column names of a
\* list of strings, the value lists of a list of rows
ColumnNames(a) ==
    IF TypedColumns(a) THEN a.v ELSE [i \in 1..Len(a.v) |-> a.v[i].v[1]]
RowValues(a) ==
    IF TypedRows(a) THEN a.v ELSE [i \in 1..Len(a.v) |-> a.v[i].v]
NamesOnly(a) ==
    TypedColumns(a) \/ \A i \in 1..Len(a.v) : a.v[i].k = "string"

\* C11: insert with two arguments hands the model's insert operation the
\* column names and the value lists its arguments hold, the same for the
\* typed shape ([]string, [][]interface{}) and for the loosely typed one
\* (a generic sequence of names, a generic sequence of generic sequences);
\* an argument of neither shape, or a loosely typed row that is no sequence,
\* ends the call with code 400 and the insert operation is not invoked.
C11_InsertShapes ==
    InsertRan =>
        LET cols == caller.Args[1]
            rows == caller.Args[2]
            shaped == /\ TypedColumns(cols) \/ LooseColumns(cols)
                      /\ TypedRows(rows) \/ LooseRows(rows)
        IN  /\ (ModelFound /\ shaped) =>
                   /\ Len(events) = 2
                   /\ events[2].op = "MustInsert"
                   /\ NamesOnly(cols) => events[2].args[1] = ColumnNames(cols)
                   /\ events[2].args[2] = RowValues(rows)
            /\ (ModelFound /\ ~shaped) => exc.code = 400
            /\ ~shaped => ~InsertInvoked

C11_Witness ==
    /\ InsertRan
    /\ caller.Args[1] = AnysV(<<StrV("a"), StrV("b")>>)
    /\ caller.Args[2] = AnysV(<< AnysV(<<IntV(1), StrV("x")>>) >>)
    /\ InsertInvoked
    /\ events[2].args[1] = <<"a", "b">>
    /\ events[2].args[2] = << <<IntV(1), StrV("x")>> >>

(***************************************************************************)
(* The mongo driver.  A field value is one token; an environment           *)
(* reference ($ENV.NAME) is a token of EnvRefs, replaced by what env maps  *)
(* it to ("" when the variable is unset).                                  *)
(***************************************************************************)
EnvRefs == {"$ENV.DB", "$ENV.HOST", "$ENV.PORT"}

\* helper.EnvString
EnvString(s, env) == IF s \in EnvRefs THEN env[s] ELSE s
\* helper.EnvInt on an integer field
EnvInt(n, default) == n

RECURSIVE JoinTokens(_, _)
\* strings.Join(parts, sep), each part a sequence of tokens
JoinTokens(parts, sep) ==
    IF parts = <<>> THEN <<>>
    ELSE IF Len(parts) = 1 THEN parts[1]
    ELSE parts[1] \o <<sep>> \o JoinTokens(Tail(parts), sep)

DefaultPort == "27017"

HostPort_NoDefault(host) == host.Port

\* mongo.go:120-122
HostPort(host) == IF host.Port = "" THEN DefaultPort ELSE host.Port

\* mongo.go:132: fmt.Sprintf("%s:%s@%s:%s", User, Pass, Host, Port)
HostElement(host) == <<host.User, ":", host.Pass, "@", host.Host, ":", HostPort(host)>>

HostIndex(i) == Digits[i]

\* mongo.go:114-133: the first host the loop rejects, 0 when it rejects none
FirstBadHost(hosts) ==
    LET bad == {i \in 1..Len(hosts) :
                  hosts[i].Host = "" \/ hosts[i].User = "" \/ hosts[i].Pass = ""}
    IN  IF bad = {} THEN 0 ELSE CHOOSE i \in bad : \A j \in bad : i <= j

HostError(hosts, i) ==
    IF hosts[i].Host = "" THEN "hosts." \o HostIndex(i) \o ".host is required"
    ELSE IF hosts[i].User = "" THEN "hosts." \o HostIndex(i) \o ".user is required"
    ELSE "hosts." \o HostIndex(i) \o ".pass is required"

\* mongo.go:135-140: the parameters in the order the map iteration gives them
ParamTokens(params, order) ==
    [i \in 1..Len(params) |-> <<params[order[i]].name, "=", params[order[i]].value>>]

\* mongo.go:103-148: [dsn, err]
getDSN(mm, order) ==
    IF mm.Options.DB = "" THEN [dsn |-> <<>>, err |-> "options.db is required"]
    ELSE IF Len(mm.Options.Hosts) = 0
    THEN [dsn |-> <<>>, err |-> "options.hosts is required"]
    ELSE LET hosts == mm.Options.Hosts
             bad == FirstBadHost(hosts)
         IN  IF bad # 0 THEN [dsn |-> <<>>, err |-> HostError(hosts, bad)]
             ELSE LET els == [i \in 1..Len(hosts) |-> HostElement(hosts[i])]
                      params == ParamTokens(mm.Options.Params, order)
                      base == <<"mongodb://">> \o JoinTokens(els, ",") \o <<"/">>
                  IN  [dsn |-> IF Len(params) > 0
                               THEN base \o <<"?">> \o JoinTokens(params, "&")
                               ELSE base,
                       err |-> Nil]

\* mongo.go:88-91
SubstituteHost(host, env) ==
    [Host |-> EnvString(host.Host, env), Port |-> EnvString(host.Port, env),
     User |-> EnvString(host.User, env), Pass |-> EnvString(host.Pass, env)]

RECURSIVE HostsLoop(_, _, _, _)
\* mongo.go:87-98, from host i on: [m, err]
HostsLoop(mm, i, env, order) ==
    IF i > Len(mm.Options.Hosts) THEN [m |-> mm, err |-> Nil]
    ELSE LET m1 == [mm EXCEPT !.Options.Hosts[i] = SubstituteHost(@, env)]
             r == getDSN(m1, order)
         IN  IF r.err # Nil THEN [m |-> m1, err |-> r.err]
             ELSE HostsLoop([m1 EXCEPT !.Options.dsn = r.dsn], i + 1, env, order)

\* mongo.go:80-100: [m, err]
setDefaults(mm, env, order) ==
    LET t  == EnvInt(mm.Options.Timeout, 5)
        m0 == [mm EXCEPT !.Options.DB = EnvString(@, env),
                         !.Options.Timeout = IF t = 0 THEN 5 ELSE t]
    IN  HostsLoop(m0, 1, env, order)

\* mongo.go:69-78: [m, err, uris]; mongo.Connect answers connectOk
makeConnection(mm, connectOk) ==
    IF ~connectOk
    THEN [m |-> mm, err |-> "connect failed", uris |-> <<mm.Options.dsn>>]
    ELSE [m |-> [mm EXCEPT !.Client = "client"], err |-> Nil,
          uris |-> <<mm.Options.dsn>>]

\* mongo.go:43-57: [m, err, uris]
Register(mm, file, id, dsl, env, order, connectOk) ==
    IF ~dsl.decodes THEN [m |-> mm, err |-> "parse error", uris |-> <<>>]
    ELSE LET parsed == [mm EXCEPT !.Options = [dsl.options EXCEPT !.dsn = <<>>]]
             d == setDefaults(parsed, env, order)
         IN  IF d.err # Nil THEN [m |-> d.m, err |-> d.err, uris |-> <<>>]
             ELSE makeConnection([d.m EXCEPT !.id = id, !.file = file], connectOk)


(***************************************************************************)
(* Inputs of Register: connector DSLs and environments.                    *)
(***************************************************************************)
Host(h, port, u, pw) == [Host |-> h, Port |-> port, User |-> u, Pass |-> pw]
HostPool ==
    { Host("h1", "27018", "u1", "p1"),
      Host("h2", "", "u2", "p2"),
      Host("$ENV.HOST", "$ENV.PORT", "u3", "p3"),
      Host("", "27018", "u4", "p4"),
      Host("h5", "", "", "p5"),
      Host("h6", "", "u6", "") }
Param(n, v) == [name |-> n, value |-> v]
ParamsPool == { <<>>, <<Param("ssl", "true")>>,
                <<Param("ssl", "true"), Param("w", "1")>> }
OptionsPool ==
    [DB : {"", "test", "$ENV.DB"}, Timeout : {0, 10},
     Hosts : SeqsUpTo(HostPool, MaxHosts), Params : ParamsPool, dsn : {<<>>}]
Envs == [EnvRefs -> {"", "val"}]
Orders(n) == {f \in [1..n -> 1..n] : \A i, j \in 1..n : f[i] = f[j] => i = j}
MongoDSLs ==
    [decodes : {TRUE}, options : OptionsPool]
    \cup [decodes : {FALSE}, options : {NewMongo.Options}]

(***************************************************************************)
(* Mongo actions.                                                          *)
(***************************************************************************)
\* c.Register(file, id, data) on the connector make() has just built
RegisterMongo(file, id, dsl, env, order, connectOk) ==
    /\ mpc = "new"
    /\ LET r == Register(m, file, id, dsl, env, order, connectOk)
       IN  /\ m' = r.m
           /\ regErr' = r.err
           /\ connects' = connects \o r.uris
    /\ mpc' = "done"
    /\ UNCHANGED <<callerVars, connVars, concVars>>

\* c := &mongo.Connector{}: the next connector starts empty
FreshMongo ==
    /\ mpc = "done"
    /\ m' = NewMongo /\ regErr' = Nil /\ connects' = <<>> /\ mpc' = "new"
    /\ UNCHANGED <<callerVars, connVars, concVars>>

NextMongo ==
    \/ mpc = "new" /\ \E dsl \in MongoDSLs, env \in Envs, connectOk \in BOOLEAN :
           \E order \in Orders(Len(dsl.options.Params)) :
               RegisterMongo("mongo.conn.json", "mongo", dsl, env, order, connectOk)
    \/ FreshMongo

SpecMongo == Init /\ [][NextMongo]_vars

(***************************************************************************)
(* Properties of the mongo driver.                                         *)
(***************************************************************************)
ConfigErrors ==
    {"options.db is required", "options.hosts is required"}
    \cup UNION { { "hosts." \o Digits[i] \o ".host is required",
                   "hosts." \o Digits[i] \o ".user is required",
                   "hosts." \o Digits[i] \o ".pass is required" } : i \in 1..10 }
Registered == mpc = "done" /\ regErr # "parse error"

\* C9: Register of a mongo connector whose DSL has no options.hosts fails
\* with a configuration error and never calls mongo.Connect.
C9_NoHostsNoConnect ==
    (Registered /\ m.Options.Hosts = <<>>) =>
        /\ regErr \in ConfigErrors
        /\ connects = <<>>

\* the tokens of the i-th "user:pass@host:port" element of a connection
\* string and the separator that follows it
ElementAt(uri, i) == SubSeq(uri, 8 * i - 6, 8 * i)
SeparatorAt(uri, i) == uri[8 * i + 1]

\* C10: with a non-empty db and a non-empty host list whose entries all have
\* host, user and pass, the connection string mongo.Connect is given holds
\* one "user:pass@host:port" element per host entry, in list order, and an
\* entry with an empty port appears with port 27017.
C10_ConnectionString ==
    (/\ Registered
     /\ connects # <<>>
     /\ m.Options.DB # ""
     /\ m.Options.Hosts # <<>>
     /\ \A i \in 1..Len(m.Options.Hosts) :
            /\ m.Options.Hosts[i].Host # ""
            /\ m.Options.Hosts[i].User # ""
            /\ m.Options.Hosts[i].Pass # "") =>
        LET uri == connects[Len(connects)]
            hosts == m.Options.Hosts
            n == Len(hosts)
        IN  /\ Len(uri) >= 8 * n + 1
            /\ uri[1] = "mongodb://"
            /\ \A i \in 1..n :
                   /\ ElementAt(uri, i) =
                          <<hosts[i].User, ":", hosts[i].Pass, "@", hosts[i].Host, ":",
                            IF hosts[i].Port = "" THEN "27017" ELSE hosts[i].Port>>
                   /\ SeparatorAt(uri, i) = IF i < n THEN "," ELSE "/"

C10_Witness ==
    /\ Registered /\ regErr = Nil /\ Len(connects) = 1
    /\ Len(m.Options.Hosts) = 2
    /\ m.Options.Hosts[1].Port = "" /\ m.Options.Hosts[2].Port # ""
    /\ m.Options.Hosts[1].Host = "val"
    /\ connects[1][8] = "27017"


(***************************************************************************)
(* The connector factory.  The Connector Table is the set of its entries,  *)
(* an entry the id and the connector instance stored under it; instances   *)
(* are told apart by number, 0 being the nil connector.                    *)
(***************************************************************************)
\* the type names the factory knows and the kind of each
types ==
    [mysql |-> "DATABASE", sqlite3 |-> "DATABASE", postgres |-> "DATABASE",
     redis |-> "REDIS", mongo |-> "MONGO"]

\* connector.go:48-70: [conn, kind, err]
make(typ, inst) ==
    IF typ \notin DOMAIN types
    THEN [conn |-> 0, kind |-> "", err |-> typ \o " does not support"]
    ELSE CASE types[typ] = "DATABASE" -> [conn |-> inst, kind |-> "database.Xun", err |-> Nil]
           [] types[typ] = "REDIS"    -> [conn |-> inst, kind |-> "redis.Connector", err |-> Nil]
           [] types[typ] = "MONGO"    -> [conn |-> inst, kind |-> "mongo.Connector", err |-> Nil]
           [] OTHER -> [conn |-> 0, kind |-> "", err |-> typ \o " does not support yet"]

\* c.Register(file, id, data) of the driver make() chose: [err, m, uris]
RegisterDriver(kind, file, id, data, ext) ==
    IF kind = "mongo.Connector"
    THEN LET r == Register(NewMongo, file, id, data.mongo, ext.env, <<>>, ext.ok)
         IN  [err |-> r.err, m |-> r.m, uris |-> r.uris]
    ELSE [err |-> IF ext.ok THEN Nil ELSE "register failed", m |-> m, uris |-> <<>>]

Store_KeepOld(table, id, c) ==
    IF \E e \in table : e.id = id THEN table
    ELSE table \cup {[id |-> id, conn |-> c.conn, kind |-> c.kind]}

\* connector.go:39: Connectors[id] = c
Store(table, id, c) ==
    {e \in table : e.id # id} \cup {[id |-> id, conn |-> c.conn, kind |-> c.kind]}

\* Connectors[id], nil when there is no entry
Entry(table, id) ==
    IF \E e \in table : e.id = id
    THEN (CHOOSE e \in table : e.id = id).conn
    ELSE 0

Failed(table, err, made, reg) ==
    [table |-> table, conn |-> 0, err |-> err, made |-> made,
     m |-> reg.m, uris |-> reg.uris]
NotRegistered == [m |-> m, uris |-> <<>>]

Load_StoreFirst(table, inst, file, id, data, ext) ==
    IF ~data.readOk THEN Failed(table, "read error", FALSE, NotRegistered)
    ELSE IF ~data.parseOk THEN Failed(table, "parse error", FALSE, NotRegistered)
    ELSE LET c == make(data.type, inst) IN
    IF c.err # Nil THEN Failed(table, c.err, FALSE, NotRegistered)
    ELSE LET stored == Store(table, id, c)
             reg == RegisterDriver(c.kind, file, id, data, ext) IN
    IF reg.err # Nil THEN Failed(stored, reg.err, TRUE, reg)
    ELSE [table |-> stored, conn |-> Entry(stored, id), err |-> Nil, made |-> TRUE,
          m |-> reg.m, uris |-> reg.uris]

\* connector.go:16-41: the table after the call, the connector and error
\* returned, whether make() built an instance, and the driver's effects
Load(table, inst, file, id, data, ext) ==
    IF ~data.readOk THEN Failed(table, "read error", FALSE, NotRegistered)
    ELSE IF ~data.parseOk THEN Failed(table, "parse error", FALSE, NotRegistered)
    ELSE LET c == make(data.type, inst) IN
    IF c.err # Nil THEN Failed(table, c.err, FALSE, NotRegistered)
    ELSE LET reg == RegisterDriver(c.kind, file, id, data, ext) IN
    IF reg.err # Nil THEN Failed(table, reg.err, TRUE, reg)
    ELSE LET stored == Store(table, id, c)
         IN  [table |-> stored, conn |-> Entry(stored, id), err |-> Nil,
              made |-> TRUE, m |-> reg.m, uris |-> reg.uris]

\* connector.go:44-46
Select(table, id) == [conn |-> 0, err |-> Nil]

(***************************************************************************)
(* Inputs of the factory.                                                  *)
(***************************************************************************)
Ids == {"a", "b"}
FileOf(id) == id \o ".conn.json"
MongoOptions(db, hosts) ==
    [DB |-> db, Timeout |-> 0, Hosts |-> hosts, Params |-> <<>>, dsn |-> <<>>]
LoadMongoDSLs ==
    { [decodes |-> TRUE, options |-> MongoOptions("test", <<Host("h1", "", "u1", "p1")>>)],
      [decodes |-> TRUE, options |-> MongoOptions("", <<Host("h1", "", "u1", "p1")>>)],
      [decodes |-> FALSE, options |-> NewMongo.Options] }
NoMongoDSL == [decodes |-> FALSE, options |-> NewMongo.Options]
\* what application.App.Read and application.Parse make of the file
FileData ==
    [readOk : {FALSE}, parseOk : {FALSE}, type : {""}, mongo : {NoMongoDSL}]
    \cup [readOk : {TRUE}, parseOk : {FALSE}, type : {""}, mongo : {NoMongoDSL}]
    \cup [readOk : {TRUE}, parseOk : {TRUE}, type : {"mysql", "redis", "kafka"},
          mongo : {NoMongoDSL}]
    \cup [readOk : {TRUE}, parseOk : {TRUE}, type : {"mongo"}, mongo : LoadMongoDSLs]
DriverAnswers == [ok : BOOLEAN, env : {[r \in EnvRefs |-> "val"]}]

(***************************************************************************)
(* Factory actions.                                                        *)
(***************************************************************************)
DoLoad(id, data, ext) ==
    /\ Len(loads) < MaxLoads
    /\ LET r == Load(Connectors, nextInst, FileOf(id), id, data, ext)
       IN  /\ Connectors' = r.table
           /\ ret' = [op |-> "Load", id |-> id, conn |-> r.conn, err |-> r.err]
           /\ loads' = Append(loads, [id |-> id, conn |-> r.conn, err |-> r.err])
           /\ nextInst' = IF r.made THEN nextInst + 1 ELSE nextInst
           /\ m' = r.m
           /\ connects' = connects \o r.uris
    /\ UNCHANGED <<callerVars, regErr, mpc, concVars>>

DoSelect(id) ==
    /\ LET r == Select(Connectors, id)
       IN  ret' = [op |-> "Select", id |-> id, conn |-> r.conn, err |-> r.err]
    /\ UNCHANGED <<Connectors, nextInst, loads, callerVars, mongoVars, concVars>>

NextConnector ==
    \/ \E id \in Ids, data \in FileData, ext \in DriverAnswers : DoLoad(id, data, ext)
    \/ \E id \in Ids : DoSelect(id)

SpecConnector == Init /\ [][NextConnector]_vars


(***************************************************************************)
(* Properties of the factory, stated on the history of Load calls.         *)
(***************************************************************************)
Succeeded(id) == {k \in 1..Len(loads) : loads[k].id = id /\ loads[k].err = Nil}
LoadsOf(id)   == {k \in 1..Len(loads) : loads[k].id = id}
Latest(S)     == CHOOSE k \in S : \A j \in S : j <= k
EntriesOf(table, id) == {e \in table : e.id = id}
\* this step is a Load call
LoadStep == Len(loads') = Len(loads) + 1
LastLoad == loads[Len(loads)]

\* C6: Select(id) consults the Connector Table: for an id whose most recent
\* Load succeeded it returns that Load's connector and no error, for an id no
\* Load ever stored it returns a non-nil error.
C6_SelectConsultsTable ==
    ret.op = "Select" =>
        /\ (LoadsOf(ret.id) # {} /\ loads[Latest(LoadsOf(ret.id))].err = Nil) =>
               (ret.conn = loads[Latest(LoadsOf(ret.id))].conn /\ ret.err = Nil)
        /\ Succeeded(ret.id) = {} => ret.err # Nil

\* C7: the second of two successful Loads of one id leaves exactly one entry
\* for that id, holding the instance that Load built and returned; no entry
\* holds an instance an earlier Load built for the id; the entries of the
\* other ids are as they were.
C7_ReloadOverwrites ==
    [][(LoadStep /\ ret'.err = Nil /\ Succeeded(ret'.id) # {}) =>
          /\ Cardinality(EntriesOf(Connectors', ret'.id)) = 1
          /\ \A e \in EntriesOf(Connectors', ret'.id) : e.conn = ret'.conn
          /\ ret'.conn = nextInst /\ ret'.conn # 0
          /\ \A k \in Succeeded(ret'.id) :
                 /\ loads[k].conn # ret'.conn
                 /\ \A e \in Connectors' : e.conn # loads[k].conn
          /\ Connectors' \ EntriesOf(Connectors', ret'.id)
                 = Connectors \ EntriesOf(Connectors, ret'.id)]_vars

C7_Witness ==
    /\ Len(loads) >= 2
    /\ LastLoad.err = Nil
    /\ Cardinality(Succeeded(LastLoad.id)) = 2
    /\ \E e \in Connectors : e.id # LastLoad.id
    /\ \A e \in EntriesOf(Connectors, LastLoad.id) : e.conn = LastLoad.conn

\* C8: a Load that fails returns the nil connector and an error, and leaves
\* the Connector Table as it was, the entry under its own id included.
C8_FailedLoadKeepsTable ==
    [][(LoadStep /\ ret'.err # Nil) =>
          /\ ret'.conn = 0
          /\ Connectors' = Connectors]_vars

C8_Witness ==
    /\ Len(loads) >= 2
    /\ LastLoad.err = "connect failed"
    /\ LastLoad.conn = 0
    /\ \E k \in Succeeded(LastLoad.id) :
           EntriesOf(Connectors, LastLoad.id) =
               {[id |-> LastLoad.id, conn |-> loads[k].conn, kind |-> "database.Xun"]}


(***************************************************************************)
(* Load and Select called from several goroutines.  Connectors is a plain  *)
(* Go map: an assignment to it and a read of it each take time, and the    *)
(* code takes no lock around either.  A write that overlaps another access *)
(* is a data race: the runtime may stop the program, or the access may     *)
(* take effect or be lost.                                                 *)
(***************************************************************************)
\* connector.go:18-37: the connector make() built and the error returned
Prepare(inst, file, id, data, ext) ==
    IF ~data.readOk THEN [c |-> NoConn, err |-> "read error", made |-> FALSE]
    ELSE IF ~data.parseOk THEN [c |-> NoConn, err |-> "parse error", made |-> FALSE]
    ELSE LET c == make(data.type, inst) IN
    IF c.err # Nil THEN [c |-> NoConn, err |-> c.err, made |-> FALSE]
    ELSE LET reg == RegisterDriver(c.kind, file, id, data, ext) IN
    IF reg.err # Nil THEN [c |-> NoConn, err |-> reg.err, made |-> TRUE]
    ELSE [c |-> c, err |-> Nil, made |-> TRUE]

\* the goroutines inside an access of the map that a write by p would overlap
Accessing(p) == {q \in Procs \ {p} : procs[q].pc \in {"storing", "fetching"}}
\* the goroutines inside a write of the map, which a read by p would overlap
Writing(p) == {q \in Procs \ {p} : procs[q].pc = "storing"}
MarkRaced(ps, next) ==
    [q \in Procs |-> IF q \in ps THEN [next[q] EXCEPT !.raced = TRUE] ELSE next[q]]

\* files of the drivers whose Register keeps no state of its own here
PlainData == {d \in FileData : d.type # "mongo"}

\* connector.go:16-37: the call up to the store
LoadBegin(p, id, data, ext) ==
    /\ ~fatal /\ procs[p].pc = "idle"
    /\ nextInst <= MaxLoads
    /\ LET r == Prepare(nextInst, FileOf(id), id, data, ext)
       IN  /\ procs' = [procs EXCEPT ![p] =
                          [pc |-> IF r.err = Nil THEN "store" ELSE "done",
                           id |-> id, c |-> r.c, raced |-> FALSE,
                           conn |-> 0, err |-> r.err]]
           /\ nextInst' = IF r.made THEN nextInst + 1 ELSE nextInst
    /\ UNCHANGED <<Connectors, loads, ret, fatal, callerVars, mongoVars>>

\* connector.go:39: the assignment Connectors[id] = c starts
StoreBegin(p) ==
    /\ ~fatal /\ procs[p].pc = "store"
    /\ LET next == [procs EXCEPT ![p].pc = "storing"]
       IN  procs' = IF Accessing(p) = {} THEN next
                    ELSE MarkRaced(Accessing(p) \cup {p}, next)
    /\ UNCHANGED <<connVars, fatal, callerVars, mongoVars>>

\* connector.go:39: the assignment ends
StoreEnd(p) ==
    /\ ~fatal /\ procs[p].pc = "storing"
    /\ \/ /\ Connectors' = Store(Connectors, procs[p].id, procs[p].c)
          /\ procs' = [procs EXCEPT ![p].pc = "fetch", ![p].raced = FALSE]
          /\ UNCHANGED fatal
       \/ /\ procs[p].raced
          /\ procs' = [procs EXCEPT ![p].pc = "fetch", ![p].raced = FALSE]
          /\ UNCHANGED <<Connectors, fatal>>
       \/ /\ procs[p].raced
          /\ fatal' = TRUE
          /\ UNCHANGED <<Connectors, procs>>
    /\ UNCHANGED <<nextInst, loads, ret, callerVars, mongoVars>>

\* connector.go:40: the read Connectors[id] starts
FetchBegin(p) ==
    /\ ~fatal /\ procs[p].pc = "fetch"
    /\ LET next == [procs EXCEPT ![p].pc = "fetching"]
       IN  procs' = IF Writing(p) = {} THEN next
                    ELSE MarkRaced(Writing(p) \cup {p}, next)
    /\ UNCHANGED <<connVars, fatal, callerVars, mongoVars>>

\* connector.go:40: the read ends and Load returns
FetchEnd(p) ==
    /\ ~fatal /\ procs[p].pc = "fetching"
    /\ \/ /\ procs' = [procs EXCEPT ![p].pc = "done", ![p].raced = FALSE,
                                    ![p].conn = Entry(Connectors, procs[p].id)]
          /\ UNCHANGED fatal
       \/ /\ procs[p].raced
          /\ procs' = [procs EXCEPT ![p].pc = "done", ![p].raced = FALSE,
                                    ![p].conn = 0]
          /\ UNCHANGED fatal
       \/ /\ procs[p].raced
          /\ fatal' = TRUE
          /\ UNCHANGED procs
    /\ UNCHANGED <<connVars, callerVars, mongoVars>>

\* connector.go:44-46: Select returns without touching the map
SelectCall(p, id) ==
    /\ ~fatal /\ procs[p].pc = "idle"
    /\ LET r == Select(Connectors, id)
       IN  procs' = [procs EXCEPT ![p] =
                       [Idle EXCEPT !.pc = "done", !.id = id,
                                    !.conn = r.conn, !.err = r.err]]
    /\ UNCHANGED <<connVars, fatal, callerVars, mongoVars>>

\* the call has returned; the goroutine is free for its next call
Return(p) ==
    /\ ~fatal /\ procs[p].pc = "done"
    /\ procs' = [procs EXCEPT ![p] = Idle]
    /\ UNCHANGED <<connVars, fatal, callerVars, mongoVars>>

NextConcurrent ==
    \/ \E p \in Procs, id \in Ids, data \in PlainData, ext \in DriverAnswers :
           LoadBegin(p, id, data, ext)
    \/ \E p \in Procs : StoreBegin(p)
    \/ \E p \in Procs : StoreEnd(p)
    \/ \E p \in Procs : FetchBegin(p)
    \/ \E p \in Procs : FetchEnd(p)
    \/ \E p \in Procs, id \in Ids : SelectCall(p, id)
    \/ \E p \in Procs : Return(p)

SpecConcurrent == Init /\ [][NextConcurrent]_vars

\* C12: the accesses to the Connector Table exclude one another: no write
\* by one Load overlaps a write by another Load or a read of the table, so
\* no access runs into a write that is under way.
C12_MutualExclusion ==
    /\ \A p, q \in Procs :
           (p # q /\ procs[p].pc = "storing") =>
               procs[q].pc \notin {"storing", "fetching"}
    /\ \A p \in Procs : ~procs[p].raced
    /\ ~fatal

=============================================================================
